---- MODULE Spec2Model ----
(***************************************************************************)
(* quotelementa: a source reader (Assigner) streams records into a bounded *)
(* job queue, a pool of crawler workers pops jobs, drives a browser session *)
(* and folds the page's elements into a shared tag-frequency table; a      *)
(* watch channel broadcasts shutdown signals; every worker reports its     *)
(* state transitions on an mpsc channel; main supervises the worker tasks. *)
(***************************************************************************)
EXTENDS Naturals, Integers, Sequences, FiniteSets, TLC

(* ------------------------------ bounds ---------------------------------- *)
\* number of worker tasks main spawns (main.rs spawns one per port of 4444..=4446)
NumWorkers == 2
\* number of well-formed records of the input file
NumRecords == 2
\* capacity the job queue is constructed with (main.rs: Queue::new(10))
Capacity == 1
\* number of shutdown signals the operator sends at most
MaxSignals == 2
\* number of descendant elements find_all returns at most
MaxElems == 1
\* payload length, in bytes, of a short and of a long record of a generated file
ShortPayload == 1
LongPayload == 70
\* number of records of the largest input of the one-worker scenario
ScenarioRecords == 3
\* largest capacity a job queue is constructed with
MaxCapacity == 2

(* ------------------------------ domains --------------------------------- *)
Workers == 1..NumWorkers
\* id of the source reader's ShutdownRx
AssignerId == 0
Readers == {AssignerId} \cup Workers
\* record i of the file yields job i
Jobs == 1..NumRecords
NoJob == 0

\* the recognized tags (a sample of the closed set HTML_TAGS)
HTML_TAGS == {"div", "span"}
\* tag names the driver can return for an element
RawTags == HTML_TAGS \cup {"x-widget"}

Report(st, url) == [state |-> st, url |-> url]

(* ----------------------------- input file ------------------------------- *)
\* size in bytes of the tail of the file read_largest_index inspects
Window == 128

DigitChars == <<"0", "1", "2", "3", "4", "5", "6", "7", "8", "9">>
IsDigit(c) == \E d \in 1..10 : DigitChars[d] = c
DigitVal(c) == (CHOOSE d \in 1..10 : DigitChars[d] = c) - 1

\* the decimal text of n
RECURSIVE Digits(_)
Digits(n) ==
    IF n < 10 THEN <<DigitChars[n + 1]>>
    ELSE Digits(n \div 10) \o <<DigitChars[(n % 10) + 1]>>

Payload(len) == [i \in 1..len |-> "e"]

\* the scheme Assigner::run inserts before the text after the delimiter
Scheme == <<"h", "t", "t", "p", "s", ":", "/", "/">>

\* the bytes of one line of a generated file: a well-formed record with a short or
\* a long payload, a record without the delimiter, a record with nothing after it,
\* a record whose payload already starts with the scheme
RecordKinds == {"short", "long", "nodelim", "nourl", "schemed"}
RecordBytes(idx, kind) ==
    CASE kind = "short" -> Digits(idx) \o <<",">> \o Payload(ShortPayload) \o <<"\n">>
      [] kind = "long" -> Digits(idx) \o <<",">> \o Payload(LongPayload) \o <<"\n">>
      [] kind = "nodelim" -> Digits(idx) \o Payload(ShortPayload) \o <<"\n">>
      [] kind = "nourl" -> Digits(idx) \o <<",">> \o <<"\n">>
      [] kind = "schemed" ->
             Digits(idx) \o <<",">> \o Scheme \o Payload(ShortPayload) \o <<"\n">>

\* the file whose i-th record has index first + i - 1 and kind kinds[i]
RECURSIVE FileOf(_, _)
FileOf(first, kinds) ==
    IF kinds = <<>> THEN <<>>
    ELSE RecordBytes(first, Head(kinds)) \o FileOf(first + 1, Tail(kinds))

\* indexes the first record of a generated file can have
FirstIndexes == {0, 9}
\* the generated files: 1..NumRecords records of any kind
Files ==
    UNION {{FileOf(first, kinds) : kinds \in [1..n -> RecordKinds]} :
              <<first, n>> \in FirstIndexes \X (1..NumRecords)}
\* the input of the runs of the pool: NumRecords well-formed records
InputFile == FileOf(0, [i \in 1..NumRecords |-> "short"])

\* positions of the line feeds of f, and its lines (a last line need not end in one)
LineFeeds(f) == {i \in 1..Len(f) : f[i] = "\n"}
NumLines(f) ==
    Cardinality(LineFeeds(f)) + (IF f # <<>> /\ f[Len(f)] # "\n" THEN 1 ELSE 0)
NthLineFeed(f, k) ==
    IF k = 0 THEN 0
    ELSE IF k > Cardinality(LineFeeds(f)) THEN Len(f) + 1
    ELSE CHOOSE p \in LineFeeds(f) : Cardinality({q \in LineFeeds(f) : q <= p}) = k
\* what next_line() yields for the k-th line: its bytes without the line feed
LineOf(f, k) == SubSeq(f, NthLineFeed(f, k - 1) + 1, NthLineFeed(f, k) - 1)
\* the number of the line that starts at byte offset pos
LineAtOffset(f, pos) == 1 + Cardinality({q \in LineFeeds(f) : q <= pos})

\* s.find(c): position of the first c in s, 0 when there is none
Find(s, c) ==
    IF \E i \in 1..Len(s) : s[i] = c
      THEN CHOOSE i \in 1..Len(s) : s[i] = c /\ \A k \in 1..(i - 1) : s[k] # c
      ELSE 0
\* iter.rposition(|x| x == c): position of the last c in s, 0 when there is none
RPosition(s, c) ==
    IF \E i \in 1..Len(s) : s[i] = c
      THEN CHOOSE i \in 1..Len(s) : s[i] = c /\ \A k \in (i + 1)..Len(s) : s[k] # c
      ELSE 0

\* usize::from_str_radix(s, 10): <<value>>, or <<>> for an empty or non-numeric s
RECURSIVE DecimalValue(_)
DecimalValue(s) ==
    IF s = <<>> THEN 0
    ELSE 10 * DecimalValue(SubSeq(s, 1, Len(s) - 1)) + DigitVal(s[Len(s)])
ParseUsize(s) ==
    IF s # <<>> /\ \A i \in 1..Len(s) : IsDigit(s[i])
      THEN <<DecimalValue(s)>>
      ELSE <<>>

\* (bug: the position is left where read_to_end stopped)
RewindBug(f) == Len(f)
\* f.rewind(): the position of the reader afterwards
Rewind(f) == 0
\* where the inspected tail starts: seek(SeekFrom::End(-128)) fails on a file
\* shorter than the window, and the reader is rewound instead
TailStart(f) == IF Len(f) < Window THEN Rewind(f) ELSE Len(f) - Window

\* read_largest_index: how it ends (Ok, Err, or a panic of one of its unwraps), the
\* index it returns and the position it leaves the reader at
ReadLargestIndex(f) ==
    LET v == SubSeq(f, TailStart(f) + 1, Len(f))
        first_lb == RPosition(v, "\n")
        second_lb == RPosition(SubSeq(v, 1, first_lb - 1), "\n")
        s == SubSeq(v, second_lb + 1, first_lb - 1)
        comma == Find(s, ",")
        idx == ParseUsize(SubSeq(s, 1, comma - 1))
    IN  IF first_lb = 0 \/ second_lb = 0
          THEN [outcome |-> "panic", index |-> <<>>, pos |-> Len(f)]
        ELSE IF comma = 0 \/ idx = <<>>
          THEN [outcome |-> "err", index |-> <<>>, pos |-> Len(f)]
        ELSE [outcome |-> "ok", index |-> idx, pos |-> Rewind(f)]

\* Assigner::run on one line: site.find(',') and what Url::parse is given, the text
\* after the delimiter with the scheme inserted before it
HasDelimiter(line) == Find(line, ",") # 0
UrlText(line) == Scheme \o SubSeq(line, Find(line, ",") + 1, Len(line))
\* Url::parse accepts a https URL that has a host
UrlParses(text) == Len(text) > Len(Scheme)
\* Url::parse on a text that starts with the scheme: the host is the text up to the
\* first ':' or '/' after the scheme, the port the digits after a ':', the path
\* what follows the authority
FirstOf(s, cs) ==
    IF \E i \in 1..Len(s) : s[i] \in cs
      THEN CHOOSE i \in 1..Len(s) : s[i] \in cs /\ \A k \in 1..(i - 1) : s[k] \notin cs
      ELSE Len(s) + 1
UrlParse(text) ==
    LET rest == SubSeq(text, Len(Scheme) + 1, Len(text))
        slash == FirstOf(rest, {"/"})
        authority == SubSeq(rest, 1, slash - 1)
        colon == FirstOf(authority, {":"})
    IN  [host |-> SubSeq(authority, 1, colon - 1),
         port |-> SubSeq(authority, colon + 1, Len(authority)),
         path |-> SubSeq(rest, slash, Len(rest))]
\* the job Assigner::run makes of the k-th record of f
JobOf(f, k) == UrlParse(UrlText(LineOf(f, k)))

VARIABLES
    version,      \* watch channel: number of values sent so far
    seen,         \* watch receivers: version each reader has marked seen
    apc,          \* Assigner: "new", "new_error", "new_panicked" (Assigner::new),
                  \* "select", "push", "done", "error", "panicked" (run), "aborted"
    next,         \* Assigner.source: index of the next unread record
    site,         \* Assigner::run: the job held while push is pending
    queue,        \* JobQueue contents, oldest first
    pushed,       \* history: jobs in the order queue.push completed
    popLog,       \* history: <<worker, job>> in the order try_pop returned them
    pc,           \* per worker: position in Crawler::new / Crawler::run
    cur,          \* per worker: the job crawl() is working on
    todo,         \* per worker: elements the fold has still to visit
    selfState,    \* per worker: table self.state.output refers to
    acc,          \* per worker: table the fold's accumulator refers to
    freq,         \* the shared Output.freq table
    priv,         \* per worker: contents of its private (Default) table
    processed,    \* history: per tag, elements accept_node counted without error
    reports,      \* history: per worker, the reports its sends delivered
    reportOpen,   \* mpsc channel: the receiver is still alive
    driver,       \* per worker: the WebDriver subprocess
    session,      \* per worker: the browser session
    main,         \* main's join loop: "waiting", "done", "failed"
    joined,       \* per worker: main has taken the task's result
    file,         \* the bytes of the input file
    sitesCount,   \* what Assigner::new returned as progress total: <<>> or <<k>>
    capacity,     \* the capacity the job queue was constructed with
    dirty,        \* the dirty flag of the shared Output
    appState,     \* App.state: "Running", "ShuttingDown", "Done"
    tui,          \* Tui::run: "running", "ended", "error", "panicked"
    closeRx,      \* the oneshot close signal: "pending", "sent", "taken"
    crawledSites, \* App.crawled_sites
    received,     \* per worker: how many of its reports the App has taken
    appFreq,      \* App.freq: the sorted snapshot, <<tag, count>> pairs
    crawlers      \* App.crawlers: per worker the state shown, or "absent"

vars == <<version, seen, apc, next, site, queue, pushed, popLog, pc, cur, todo,
          selfState, acc, freq, priv, processed, reports, reportOpen, driver,
          session, main, joined, file, sitesCount, capacity, dirty, appState, tui,
          closeRx, crawledSites, received, appFreq, crawlers>>

shutdownVars == <<version, seen>>
readerVars == <<apc, next, site>>
queueVars == <<queue, pushed, popLog>>
foldVars == <<todo, selfState, acc, freq, priv, processed>>
procVars == <<driver, session>>
mainVars == <<main, joined>>
\* what is set up before the pool runs
setupVars == <<file, sitesCount, capacity>>
\* the fields of the App and the position of Tui::run
appVars == <<appState, tui, closeRx, crawledSites, received, appFreq, crawlers>>

ZeroTable == [t \in HTML_TAGS |-> 0]

\* the channels, the queue, the table and the tasks as main has created them
FreshPool ==
    /\ version = 0
    /\ seen = [r \in Readers |-> 0]
    /\ next = 1
    /\ site = NoJob
    /\ queue = <<>>
    /\ pushed = <<>>
    /\ popLog = <<>>
    /\ pc = [w \in Workers |-> "spawned"]
    /\ cur = [w \in Workers |-> NoJob]
    /\ todo = [w \in Workers |-> 0]
    /\ selfState = [w \in Workers |-> "none"]
    /\ acc = [w \in Workers |-> "none"]
    /\ freq = ZeroTable
    /\ priv = [w \in Workers |-> ZeroTable]
    /\ processed = ZeroTable
    /\ reports = [w \in Workers |-> <<>>]
    /\ reportOpen = TRUE
    /\ driver = [w \in Workers |-> "none"]
    /\ session = [w \in Workers |-> "none"]
    /\ main = "waiting"
    /\ joined = [w \in Workers |-> FALSE]
    /\ dirty = FALSE
    /\ appState = "Running"
    /\ tui = "running"
    /\ closeRx = "pending"
    /\ crawledSites = 0
    /\ received = [w \in Workers |-> 0]
    /\ appFreq = <<>>
    /\ crawlers = [w \in Workers |-> "absent"]

\* Assigner::new has returned for the input file, the tasks are spawned
Init ==
    /\ FreshPool
    /\ capacity = Capacity
    /\ apc = "select"
    /\ file = InputFile
    /\ sitesCount = ReadLargestIndex(InputFile).index

(* --------------------- watch channel (ShutdownRx) ----------------------- *)
\* (bug: a boolean flag, consumed by the first wait, in place of the version)
HasChangedBug(r) == version > 0 /\ seen[r] = 0
\* Receiver::changed() is ready when a value newer than the one marked seen exists
HasChanged(r) == version > seen[r]
\* (bug: one receiver's wait marks the value seen for every receiver)
MarkSeenBug(r) == [q \in Readers |-> version]
\* changed() marks the newest value seen, however many were sent since the last wait
MarkSeen(r) == [seen EXCEPT ![r] = version]

\* the operator's Ctrl-C handler: tx.send(())
Signal ==
    /\ main = "waiting"
    /\ version < MaxSignals
    /\ version' = version + 1
    /\ UNCHANGED <<setupVars, appVars, dirty, seen, readerVars, queueVars, pc, cur,
                   foldVars, reports, reportOpen, procVars, mainVars>>

\* the observer drops the receiving end of the report channel
ObserverExits ==
    /\ main = "waiting"
    /\ reportOpen
    /\ reportOpen' = FALSE
    /\ UNCHANGED <<setupVars, appVars, dirty, shutdownVars, readerVars, queueVars, pc,
                   cur, foldVars, reports, procVars, mainVars>>

(* ------------------------------ job queue ------------------------------- *)
\* (bug: the queue takes one job more than its capacity)
QueueFullBug(q) == Len(q) > capacity
QueueFull(q) == Len(q) >= capacity
Push(q, j) == Append(q, j)
\* (bug: the job try_pop returns is not removed)
PopRestBug(q) == q
\* what try_pop leaves in the queue
PopRest(q) == Tail(q)

(* ------------------------- Assigner::run -------------------------------- *)
\* the job made from record i: the text after the comma, with the scheme prefixed
ParseRecord(i) == i
\* (bug: the record after the one read is skipped)
AdvanceBug(n) == n + 2
\* next_line() consumes one record
Advance(n) == n + 1

\* select!: rx.changed() wins => break; run returns Ok
AssignerShutdown ==
    /\ main = "waiting"
    /\ apc = "select"
    /\ HasChanged(AssignerId)
    /\ seen' = MarkSeen(AssignerId)
    /\ apc' = "done"
    /\ UNCHANGED <<setupVars, appVars, dirty, version, next, site, queueVars, pc, cur,
                   foldVars, reports, reportOpen, procVars, mainVars>>

\* Assigner::new: read_largest_index, then source.lines() from where it left the
\* reader; its ? passes an error on, a panic unwinds through it
AssignerNew ==
    /\ main = "waiting"
    /\ apc = "new"
    /\ LET r == ReadLargestIndex(file) IN
         /\ sitesCount' = r.index
         /\ next' = LineAtOffset(file, r.pos)
         /\ apc' = CASE r.outcome = "ok" -> "select"
                     [] r.outcome = "err" -> "new_error"
                     [] r.outcome = "panic" -> "new_panicked"
    /\ UNCHANGED <<file, capacity, appVars, dirty, shutdownVars, site, queueVars, pc,
                   cur, foldVars, reports, reportOpen, procVars, mainVars>>

\* select!: next_line() wins with Some(line), the line has its delimiter and its
\* URL parses; the branch body starts the push
AssignerReadLine ==
    /\ main = "waiting"
    /\ apc = "select"
    /\ next <= NumLines(file)
    /\ HasDelimiter(LineOf(file, next))
    /\ UrlParses(UrlText(LineOf(file, next)))
    /\ site' = ParseRecord(next)
    /\ next' = Advance(next)
    /\ apc' = "push"
    /\ UNCHANGED <<setupVars, appVars, dirty, shutdownVars, queueVars, pc, cur,
                   foldVars, reports, reportOpen, procVars, mainVars>>

\* queue.push(..).await completes once the queue has room; back to the select!
AssignerPush ==
    /\ main = "waiting"
    /\ apc = "push"
    /\ ~QueueFull(queue)
    /\ queue' = Push(queue, site)
    /\ pushed' = Append(pushed, site)
    /\ site' = NoJob
    /\ apc' = "select"
    /\ UNCHANGED <<setupVars, appVars, dirty, shutdownVars, next, popLog, pc, cur,
                   foldVars, reports, reportOpen, procVars, mainVars>>

\* select!: next_line() wins with Some(line) and the line has no delimiter:
\* site.find(',').unwrap() panics
AssignerNoDelimiter ==
    /\ main = "waiting"
    /\ apc = "select"
    /\ next <= NumLines(file)
    /\ ~HasDelimiter(LineOf(file, next))
    /\ next' = Advance(next)
    /\ apc' = "panicked"
    /\ UNCHANGED <<setupVars, appVars, dirty, shutdownVars, site, queueVars, pc, cur,
                   foldVars, reports, reportOpen, procVars, mainVars>>

\* select!: next_line() wins with Some(line) and Url::parse returns Err: its ?
\* returns the error from run
AssignerBadUrl ==
    /\ main = "waiting"
    /\ apc = "select"
    /\ next <= NumLines(file)
    /\ HasDelimiter(LineOf(file, next))
    /\ ~UrlParses(UrlText(LineOf(file, next)))
    /\ next' = Advance(next)
    /\ apc' = "error"
    /\ UNCHANGED <<setupVars, appVars, dirty, shutdownVars, site, queueVars, pc, cur,
                   foldVars, reports, reportOpen, procVars, mainVars>>

\* select!: next_line() wins with None => break; run returns Ok
AssignerEof ==
    /\ main = "waiting"
    /\ apc = "select"
    /\ next > NumLines(file)
    /\ apc' = "done"
    /\ UNCHANGED <<setupVars, appVars, dirty, shutdownVars, next, site, queueVars, pc,
                   cur, foldVars, reports, reportOpen, procVars, mainVars>>


(* --------------------------- report channel ----------------------------- *)
\* report_tx.send(CrawlerReport { port: w, state }) delivered
Send(w, st, url) == [reports EXCEPT ![w] = Append(@, Report(st, url))]

\* the Child was spawned with kill_on_drop(true). Dropping the Client awaits
\* nothing: the session is not closed when the task ends, and the driver that
\* would take a later request to end it is killed by the same drop
DriverAfterDrop(d) == IF d = "running" THEN "killed" ELSE d

(* ---------------------------- Crawler::new ------------------------------ *)
\* the task starts: new() sends Initializing (.expect panics when the observer is gone)
NewStart(w) ==
    /\ main = "waiting"
    /\ pc[w] = "spawned"
    /\ IF reportOpen
         THEN /\ reports' = Send(w, "Initializing", NoJob)
              /\ pc' = [pc EXCEPT ![w] = "init"]
         ELSE /\ pc' = [pc EXCEPT ![w] = "panicked"]
              /\ UNCHANGED reports
    /\ UNCHANGED <<setupVars, appVars, dirty, shutdownVars, readerVars, queueVars, cur,
                   foldVars, reportOpen, procVars, mainVars>>

\* init_session returns Ok: driver spawned, session connected, State::new done
InitOk(w) ==
    /\ main = "waiting"
    /\ pc[w] = "init"
    /\ driver' = [driver EXCEPT ![w] = "running"]
    /\ session' = [session EXCEPT ![w] = "open"]
    /\ selfState' = [selfState EXCEPT ![w] = "shared"]
    /\ pc' = [pc EXCEPT ![w] = "pop"]
    /\ UNCHANGED <<setupVars, appVars, dirty, shutdownVars, readerVars, queueVars, cur,
                   todo, acc, freq, priv, processed, reports, reportOpen, mainVars>>

\* init_session returns Err at some stage; new() sends Terminated and returns the
\* error, which the task's unwrap() turns into a panic
InitFail(w) ==
    /\ main = "waiting"
    /\ pc[w] = "init"
    /\ \E stage \in {"spawn", "connect", "set_ua"} :
         /\ driver' = [driver EXCEPT ![w] =
                          IF stage = "spawn" THEN "none" ELSE "killed"]
         /\ session' = [session EXCEPT ![w] =
                          IF stage = "set_ua" THEN "open" ELSE "none"]
    /\ IF reportOpen
         THEN reports' = Send(w, "Terminated", NoJob)
         ELSE UNCHANGED reports
    /\ pc' = [pc EXCEPT ![w] = "panicked"]
    /\ UNCHANGED <<setupVars, appVars, dirty, shutdownVars, readerVars, queueVars, cur,
                   foldVars, reportOpen, mainVars>>

(* ---------------------------- Crawler::run ------------------------------ *)
\* positions at which the crawl_loop future is suspended inside run's first select!
CrawlPcs == {"pop", "goto", "find", "fold", "complete", "nav_err", "dom_err"}

\* run returns Err(e): the Crawler is dropped
RunErr(w) ==
    /\ pc' = [pc EXCEPT ![w] = "error"]
    /\ driver' = [driver EXCEPT ![w] = DriverAfterDrop(@)]
    /\ cur' = [cur EXCEPT ![w] = NoJob]

\* (bug: the ShuttingDown report is left out)
EnterShuttingDownBug(w) ==
    /\ pc' = [pc EXCEPT ![w] = "closing"]
    /\ cur' = [cur EXCEPT ![w] = NoJob]
    /\ UNCHANGED <<driver, reports>>

\* the code after the loop: send ShuttingDown, then wait in the second select!
EnterShuttingDown(w) ==
    IF reportOpen
      THEN /\ reports' = Send(w, "ShuttingDown", NoJob)
           /\ pc' = [pc EXCEPT ![w] = "closing"]
           /\ cur' = [cur EXCEPT ![w] = NoJob]
           /\ UNCHANGED driver
      ELSE /\ RunErr(w)
           /\ UNCHANGED reports

\* first select!: shutdown_rx.changed() wins; the crawl_loop future is dropped
\* wherever it is suspended, and with it the fold's accumulator
ObserveShutdown(w) ==
    /\ main = "waiting"
    /\ pc[w] \in CrawlPcs
    /\ HasChanged(w)
    /\ seen' = MarkSeen(w)
    /\ todo' = [todo EXCEPT ![w] = 0]
    /\ acc' = [acc EXCEPT ![w] = "none"]
    /\ priv' = [priv EXCEPT ![w] = IF pc[w] = "fold" THEN ZeroTable ELSE @]
    /\ EnterShuttingDown(w)
    /\ UNCHANGED <<setupVars, appVars, dirty, version, readerVars, queueVars, selfState,
                   freq, processed, reportOpen, session, mainVars>>

(* -------------------------- Crawler::crawl_loop ------------------------- *)
\* try_pop() returns Some(site): crawl() sends InProgress and starts the navigation.
\* A failed send makes crawl() return Err (logged), then the Complete send fails too
\* and its ? ends crawl_loop and run with Err.
TryPopSome(w) ==
    /\ main = "waiting"
    /\ pc[w] = "pop"
    /\ queue # <<>>
    /\ queue' = PopRest(queue)
    /\ popLog' = Append(popLog, <<w, Head(queue)>>)
    /\ IF reportOpen
         THEN /\ reports' = Send(w, "InProgress", Head(queue))
              /\ pc' = [pc EXCEPT ![w] = "goto"]
              /\ cur' = [cur EXCEPT ![w] = Head(queue)]
              /\ UNCHANGED driver
         ELSE /\ RunErr(w)
              /\ UNCHANGED reports
    /\ UNCHANGED <<setupVars, appVars, dirty, shutdownVars, readerVars, pushed,
                   foldVars, reportOpen, session, mainVars>>

\* try_pop() returns None: crawl_loop returns Ok(()), run breaks out of its loop
TryPopNone(w) ==
    /\ main = "waiting"
    /\ pc[w] = "pop"
    /\ queue = <<>>
    /\ EnterShuttingDown(w)
    /\ UNCHANGED <<setupVars, appVars, dirty, shutdownVars, readerVars, queueVars,
                   foldVars, reportOpen, session, mainVars>>

(* ---------------------------- Crawler::crawl ---------------------------- *)
\* client.goto(url) returns Ok
GotoOk(w) ==
    /\ main = "waiting"
    /\ pc[w] = "goto"
    /\ pc' = [pc EXCEPT ![w] = "find"]
    /\ UNCHANGED <<setupVars, appVars, dirty, shutdownVars, readerVars, queueVars, cur,
                   foldVars, reports, reportOpen, procVars, mainVars>>

\* (bug: crawl_loop passes the navigation's error on by ?, which ends run)
GotoFailBug(w) ==
    /\ main = "waiting"
    /\ pc[w] = "goto"
    /\ RunErr(w)
    /\ UNCHANGED <<setupVars, appVars, dirty, shutdownVars, readerVars, queueVars,
                   foldVars, reports, reportOpen, session, mainVars>>

\* client.goto(url) returns Err: crawl returns it by ? to crawl_loop
GotoFail(w) ==
    /\ main = "waiting"
    /\ pc[w] = "goto"
    /\ pc' = [pc EXCEPT ![w] = "nav_err"]
    /\ UNCHANGED <<setupVars, appVars, dirty, shutdownVars, readerVars, queueVars, cur,
                   foldVars, reports, reportOpen, procVars, mainVars>>

\* client.find(Css("body")) returns Err (no root element), or find_all(Css("*")) on
\* it does: crawl returns the error by ? to crawl_loop
FindFail(w) ==
    /\ main = "waiting"
    /\ pc[w] = "find"
    /\ \E failed \in {"find", "find_all"} : TRUE
    /\ pc' = [pc EXCEPT ![w] = "dom_err"]
    /\ UNCHANGED <<setupVars, appVars, dirty, shutdownVars, readerVars, queueVars, cur,
                   foldVars, reports, reportOpen, procVars, mainVars>>

\* std::mem::take(&mut self.state): what self.state refers to while the fold runs
\* (State::default() holds a fresh, empty Output)
Taken(st) == "default"

\* the fold starts on n elements with the taken state as accumulator; with no
\* element it returns the state at once and crawl assigns it back
StartFold(w, n) ==
    IF n = 0
      THEN /\ pc' = [pc EXCEPT ![w] = "complete"]
           /\ UNCHANGED <<todo, selfState, acc>>
      ELSE /\ pc' = [pc EXCEPT ![w] = "fold"]
           /\ todo' = [todo EXCEPT ![w] = n]
           /\ acc' = [acc EXCEPT ![w] = selfState[w]]
           /\ selfState' = [selfState EXCEPT ![w] = Taken(selfState[w])]

\* find and find_all return the descendants of the root element
FindOk(w) ==
    /\ main = "waiting"
    /\ pc[w] = "find"
    /\ \E n \in 0..MaxElems : StartFold(w, n)
    /\ UNCHANGED <<setupVars, appVars, dirty, shutdownVars, readerVars, queueVars, cur,
                   freq, priv, processed, reports, reportOpen, procVars, mainVars>>

\* the fold moves on after an element accept_node returned Ok for; after the last
\* one crawl assigns the accumulator back to self.state
FoldAdvance(w) ==
    /\ todo' = [todo EXCEPT ![w] = @ - 1]
    /\ IF todo[w] = 1
         THEN /\ selfState' = [selfState EXCEPT ![w] = acc[w]]
              /\ acc' = [acc EXCEPT ![w] = "none"]
              /\ pc' = [pc EXCEPT ![w] = "complete"]
         ELSE UNCHANGED <<selfState, acc, pc>>

\* (bug: a counter one bit wide, which wraps to 0)
BumpWrapBug(table, tag) == [table EXCEPT ![tag] = (@ + 1) % 2]
\* (bug: the entry is raised by two)
BumpBug(table, tag) == [table EXCEPT ![tag] = @ + 2]
\* *self.output.freq.entry(tag).or_default() += 1
Bump(table, tag) == [table EXCEPT ![tag] = @ + 1]

\* State::accept_node returns Ok(self) without counting: tag_name() failed, or the
\* tag is not in HTML_TAGS
AcceptNodeSkip(w) ==
    /\ main = "waiting"
    /\ pc[w] = "fold"
    /\ \E outcome \in {"no_tag_name"} \cup (RawTags \ HTML_TAGS) : TRUE
    /\ FoldAdvance(w)
    /\ UNCHANGED <<setupVars, appVars, dirty, shutdownVars, readerVars, queueVars, cur,
                   freq, priv, processed, reports, reportOpen, procVars, mainVars>>

\* the dirty flag after an increment of its table
Raised(d) == TRUE
\* the increment goes to the table the accumulator's output refers to, and sets
\* that table's dirty flag
CountTag(w, tag) ==
    /\ IF acc[w] = "shared"
         THEN /\ freq' = Bump(freq, tag)
              /\ dirty' = Raised(dirty)
              /\ UNCHANGED priv
         ELSE /\ priv' = [priv EXCEPT ![w] = Bump(@, tag)]
              /\ UNCHANGED <<freq, dirty>>
    /\ processed' = [processed EXCEPT ![tag] = @ + 1]

\* State::accept_node counts a recognized tag (for a div, rectangle() returned Ok)
AcceptNodeCount(w) ==
    /\ main = "waiting"
    /\ pc[w] = "fold"
    /\ \E tag \in HTML_TAGS : CountTag(w, tag)
    /\ FoldAdvance(w)
    /\ UNCHANGED <<setupVars, appVars, shutdownVars, readerVars, queueVars, cur,
                   reports, reportOpen, procVars, mainVars>>

\* State::accept_node returns Err: rectangle() failed on a div. try_fold stops and
\* drops the accumulator, crawl returns by ? before assigning self.state, and
\* crawl_loop logs the error
AcceptNodeErr(w) ==
    /\ main = "waiting"
    /\ pc[w] = "fold"
    /\ todo' = [todo EXCEPT ![w] = 0]
    /\ acc' = [acc EXCEPT ![w] = "none"]
    /\ priv' = [priv EXCEPT ![w] = ZeroTable]
    /\ pc' = [pc EXCEPT ![w] = "complete"]
    /\ UNCHANGED <<setupVars, appVars, dirty, shutdownVars, readerVars, queueVars, cur,
                   selfState, freq, processed, reports, reportOpen, procVars, mainVars>>

\* positions of crawl_loop once crawl has returned: with Ok (or the fold's error),
\* with the navigation's error, with the error of find or find_all
ReturnedPcs == {"complete", "nav_err", "dom_err"}

\* crawl_loop logs the error if crawl returned one, sends Complete whatever crawl
\* returned, and pops again; a failed send ends crawl_loop and run with Err
SendComplete(w) ==
    /\ main = "waiting"
    /\ pc[w] \in ReturnedPcs
    /\ IF reportOpen
         THEN /\ reports' = Send(w, "Complete", NoJob)
              /\ pc' = [pc EXCEPT ![w] = "pop"]
              /\ cur' = [cur EXCEPT ![w] = NoJob]
              /\ UNCHANGED driver
         ELSE /\ RunErr(w)
              /\ UNCHANGED reports
    /\ UNCHANGED <<setupVars, appVars, dirty, shutdownVars, readerVars, queueVars,
                   foldVars, reportOpen, session, mainVars>>

(* ------------------- Crawler::run, after ShuttingDown ------------------- *)
\* the code after the second select!: driver.start_kill()? and the Terminated send.
\* When start_kill fails the signal could not be delivered, so the kill that
\* kill_on_drop repeats does not end the process either.
KillAndReport(w, killed) ==
    IF killed
      THEN /\ driver' = [driver EXCEPT ![w] = "killed"]
           /\ IF reportOpen
                THEN /\ reports' = Send(w, "Terminated", NoJob)
                     /\ pc' = [pc EXCEPT ![w] = "done"]
                ELSE /\ pc' = [pc EXCEPT ![w] = "error"]
                     /\ UNCHANGED reports
      ELSE /\ pc' = [pc EXCEPT ![w] = "error"]
           /\ UNCHANGED <<driver, reports>>

\* second select!: shutdown_rx.changed() wins; client.close() is abandoned
ForcedShutdown(w) ==
    /\ main = "waiting"
    /\ pc[w] = "closing"
    /\ HasChanged(w)
    /\ seen' = MarkSeen(w)
    /\ \E killed \in BOOLEAN : KillAndReport(w, killed)
    /\ UNCHANGED <<setupVars, appVars, dirty, version, readerVars, queueVars, cur,
                   foldVars, reportOpen, session, mainVars>>

\* second select!: client.close() wins with Ok
CloseOk(w) ==
    /\ main = "waiting"
    /\ pc[w] = "closing"
    /\ session' = [session EXCEPT ![w] = "closed"]
    /\ \E killed \in BOOLEAN : KillAndReport(w, killed)
    /\ UNCHANGED <<setupVars, appVars, dirty, shutdownVars, readerVars, queueVars, cur,
                   foldVars, reportOpen, mainVars>>

\* second select!: client.close() wins with Err; res? returns it from run
CloseErr(w) ==
    /\ main = "waiting"
    /\ pc[w] = "closing"
    /\ RunErr(w)
    /\ UNCHANGED <<setupVars, appVars, dirty, shutdownVars, readerVars, queueVars,
                   foldVars, reports, reportOpen, session, mainVars>>

(* ------------------------------- main ----------------------------------- *)
Finished(w) == pc[w] \in {"done", "error", "panicked"}

\* main returns: the runtime is dropped, which cancels every task still running
\* (its Crawler is dropped with it)
AbortTasks ==
    /\ pc' = [w \in Workers |-> IF Finished(w) THEN pc[w] ELSE "aborted"]
    /\ driver' = [w \in Workers |->
                    IF Finished(w) THEN driver[w] ELSE DriverAfterDrop(driver[w])]
    /\ apc' = IF apc \in {"select", "push"} THEN "aborted" ELSE apc

\* set.join_next() yields Ok(Ok(_)) for a task whose run returned Ok; when it was
\* the last task the else branch breaks and main returns Ok(())
JoinOk(w) ==
    /\ main = "waiting"
    /\ pc[w] = "done"
    /\ ~joined[w]
    /\ joined' = [joined EXCEPT ![w] = TRUE]
    /\ IF \A v \in Workers \ {w} : joined[v]
         THEN /\ main' = "done"
              /\ AbortTasks
         ELSE UNCHANGED <<main, pc, driver, apc>>
    /\ UNCHANGED <<setupVars, appVars, dirty, shutdownVars, next, site, queueVars, cur,
                   foldVars, reports, reportOpen, session>>

\* set.join_next() yields a JoinError (the task panicked) or Ok(Err(e)) (run
\* returned Err): res?? returns the error from main
JoinErr(w) ==
    /\ main = "waiting"
    /\ pc[w] \in {"error", "panicked"}
    /\ ~joined[w]
    /\ joined' = [joined EXCEPT ![w] = TRUE]
    /\ main' = "failed"
    /\ AbortTasks
    /\ UNCHANGED <<setupVars, appVars, dirty, shutdownVars, next, site, queueVars, cur,
                   foldVars, reports, reportOpen, session>>

(* --------------------------- specifications ----------------------------- *)
\* every step of the program and of the operator while the observer is alive
NextAlive ==
    \/ Signal
    \/ AssignerShutdown
    \/ AssignerReadLine
    \/ AssignerPush
    \/ AssignerEof
    \/ \E w \in Workers : NewStart(w)
    \/ \E w \in Workers : InitOk(w)
    \/ \E w \in Workers : InitFail(w)
    \/ \E w \in Workers : ObserveShutdown(w)
    \/ \E w \in Workers : TryPopSome(w)
    \/ \E w \in Workers : TryPopNone(w)
    \/ \E w \in Workers : GotoOk(w)
    \/ \E w \in Workers : GotoFail(w)
    \/ \E w \in Workers : FindOk(w)
    \/ \E w \in Workers : FindFail(w)
    \/ \E w \in Workers : AcceptNodeSkip(w)
    \/ \E w \in Workers : AcceptNodeCount(w)
    \/ \E w \in Workers : AcceptNodeErr(w)
    \/ \E w \in Workers : SendComplete(w)
    \/ \E w \in Workers : ForcedShutdown(w)
    \/ \E w \in Workers : CloseOk(w)
    \/ \E w \in Workers : CloseErr(w)
    \/ \E w \in Workers : JoinOk(w)
    \/ \E w \in Workers : JoinErr(w)

Next ==
    \/ NextAlive
    \/ ObserverExits

\* the whole system, the observer's receiver being dropped at any moment
Spec == Init /\ [][Next]_vars

\* the system while the observer outlives the pool: every report send succeeds
AliveSpec == Init /\ [][NextAlive]_vars

\* Steps the executor and the driver's replies make sooner or later: a ready task is
\* polled, a browser command that was issued is answered.  Not among them: the
\* operator's signals and the reply to client.close(), which the second select! is
\* written not to depend on.
AssignerStep ==
    AssignerShutdown \/ AssignerReadLine \/ AssignerPush \/ AssignerEof

WorkerStep(w) ==
    \/ NewStart(w) \/ InitOk(w) \/ InitFail(w)
    \/ ObserveShutdown(w) \/ TryPopSome(w) \/ TryPopNone(w)
    \/ GotoOk(w) \/ GotoFail(w) \/ FindOk(w) \/ FindFail(w)
    \/ AcceptNodeSkip(w) \/ AcceptNodeCount(w) \/ AcceptNodeErr(w)
    \/ SendComplete(w) \/ ForcedShutdown(w)

JoinStep == \E w \in Workers : JoinOk(w) \/ JoinErr(w)

Fairness ==
    /\ WF_vars(AssignerStep)
    /\ \A w \in Workers : WF_vars(WorkerStep(w))
    /\ WF_vars(JoinStep)

FairSpec == AliveSpec /\ Fairness

(* ------------------------- the reader and its file ---------------------- *)
\* the worker of a pool of one
Solo == {1}

\* before Assigner::new, on any of the generated files
SourceInit ==
    /\ FreshPool
    /\ capacity = Capacity
    /\ apc = "new"
    /\ file \in Files
    /\ sitesCount = <<>>

\* Assigner::new and Assigner::run on the file, one worker taking the jobs, no
\* shutdown signal
SourceNext ==
    \/ AssignerNew
    \/ AssignerReadLine
    \/ AssignerNoDelimiter
    \/ AssignerBadUrl
    \/ AssignerPush
    \/ AssignerEof
    \/ \E w \in Solo : NewStart(w)
    \/ \E w \in Solo : InitOk(w)
    \/ \E w \in Solo : TryPopSome(w)
    \/ \E w \in Solo : TryPopNone(w)
    \/ \E w \in Solo : GotoOk(w)
    \/ \E w \in Solo : GotoFail(w)
    \/ \E w \in Solo : FindOk(w)
    \/ \E w \in Solo : FindFail(w)
    \/ \E w \in Solo : AcceptNodeSkip(w)
    \/ \E w \in Solo : AcceptNodeCount(w)
    \/ \E w \in Solo : AcceptNodeErr(w)
    \/ \E w \in Solo : SendComplete(w)
    \/ \E w \in Solo : CloseOk(w)
    \/ \E w \in Solo : CloseErr(w)

SourceSpec == SourceInit /\ [][SourceNext]_vars

(* ------------------------------ the job queue -------------------------- *)
\* Assigner::new has returned for a file of well-formed records, the queue has one
\* of the capacities
QueueInit ==
    /\ FreshPool
    /\ capacity \in 1..MaxCapacity
    /\ apc = "select"
    /\ file \in {FileOf(0, [i \in 1..n |-> "short"]) : n \in NumRecords..ScenarioRecords}
    /\ sitesCount = ReadLargestIndex(file).index

\* the reader and the pool while no shutdown signal is sent and the observer is alive
QueueNext ==
    \/ AssignerReadLine
    \/ AssignerPush
    \/ AssignerEof
    \/ \E w \in Workers : NewStart(w)
    \/ \E w \in Workers : InitOk(w)
    \/ \E w \in Workers : InitFail(w)
    \/ \E w \in Workers : TryPopSome(w)
    \/ \E w \in Workers : TryPopNone(w)
    \/ \E w \in Workers : GotoOk(w)
    \/ \E w \in Workers : GotoFail(w)
    \/ \E w \in Workers : FindOk(w)
    \/ \E w \in Workers : FindFail(w)
    \/ \E w \in Workers : AcceptNodeSkip(w)
    \/ \E w \in Workers : AcceptNodeCount(w)
    \/ \E w \in Workers : AcceptNodeErr(w)
    \/ \E w \in Workers : SendComplete(w)
    \/ \E w \in Workers : CloseOk(w)
    \/ \E w \in Workers : CloseErr(w)
    \/ \E w \in Workers : JoinOk(w)
    \/ \E w \in Workers : JoinErr(w)

QueueSpec == QueueInit /\ [][QueueNext]_vars

(* ------------------------------ the scenario ---------------------------- *)
\* the tags of the elements of every page of the scenario, in document order
PageTags == <<"div", "div", "span">>

\* find and find_all return the elements of the scenario's page
ScenarioFind(w) ==
    /\ main = "waiting"
    /\ pc[w] = "find"
    /\ StartFold(w, Len(PageTags))
    /\ UNCHANGED <<setupVars, appVars, dirty, shutdownVars, readerVars, queueVars, cur,
                   freq, priv, processed, reports, reportOpen, procVars, mainVars>>

\* accept_node on the next element of the scenario's page (rectangle() succeeds)
ScenarioAccept(w) ==
    /\ main = "waiting"
    /\ pc[w] = "fold"
    /\ CountTag(w, PageTags[Len(PageTags) - todo[w] + 1])
    /\ FoldAdvance(w)
    /\ UNCHANGED <<setupVars, appVars, shutdownVars, readerVars, queueVars, cur,
                   reports, reportOpen, procVars, mainVars>>

\* Assigner::new has returned for a file of N well-formed records
ScenarioInit ==
    /\ FreshPool
    /\ capacity = Capacity
    /\ apc = "select"
    /\ file \in {FileOf(0, [i \in 1..n |-> "short"]) : n \in NumRecords..ScenarioRecords}
    /\ sitesCount = ReadLargestIndex(file).index

\* one worker, N well-formed records, every navigation and every browser command
\* succeeds, no shutdown signal, the observer alive
ScenarioNext ==
    \/ AssignerReadLine
    \/ AssignerPush
    \/ AssignerEof
    \/ \E w \in Solo : NewStart(w)
    \/ \E w \in Solo : InitOk(w)
    \/ \E w \in Solo : TryPopSome(w)
    \/ \E w \in Solo : TryPopNone(w)
    \/ \E w \in Solo : GotoOk(w)
    \/ \E w \in Solo : ScenarioFind(w)
    \/ \E w \in Solo : ScenarioAccept(w)
    \/ \E w \in Solo : SendComplete(w)
    \/ \E w \in Solo : CloseOk(w)

ScenarioSpec == ScenarioInit /\ [][ScenarioNext]_vars


(* ------------------------------- the observer --------------------------- *)
\* the order of the tags in the table the aggregator hands out (Tag::from_repr)
TagOrder == <<"div", "span">>
\* output.freq.get(): the counters at this instant, paired with their tags
Snapshot(table) == [i \in 1..Len(TagOrder) |-> <<TagOrder[i], table[TagOrder[i]]>>]
\* sort_by(|(_, v1), (_, v2)| v2.cmp(v1)): stable, largest count first
SortByCount(v) ==
    LET n == Len(v)
        p == CHOOSE p \in [1..n -> 1..n] :
                 /\ \A i, j \in 1..n : i # j => p[i] # p[j]
                 /\ \A i, j \in 1..n :
                        i < j => \/ v[p[i]][2] > v[p[j]][2]
                                 \/ v[p[i]][2] = v[p[j]][2] /\ p[i] < p[j]
    IN  [i \in 1..n |-> v[p[i]]]

\* (bug: reading the flag clears it)
AfterPollBug(d) == FALSE
\* the dirty flag after output.freq.is_dirty() has read it
AfterPoll(d) == d

\* the reports of worker w the App has not taken from the channel yet
Unread(w) == SubSeq(reports[w], received[w] + 1, Len(reports[w]))
CompleteIn(q) == Cardinality({i \in 1..Len(q) : q[i].state = "Complete"})
RECURSIVE SumComplete(_)
SumComplete(ws) ==
    IF ws = {} THEN 0
    ELSE LET w == CHOOSE w \in ws : TRUE
         IN  CompleteIn(Unread(w)) + SumComplete(ws \ {w})
\* the entry of App.crawlers for w once its unread reports are applied in order:
\* Complete leaves it, Terminated removes it, any other state replaces it
Shown(w) ==
    LET q == Unread(w)
        others == {i \in 1..Len(q) : q[i].state # "Complete"}
        last == CHOOSE i \in others : \A k \in others : k <= i
    IN  IF others = {} THEN crawlers[w]
        ELSE IF q[last].state = "Terminated" THEN "absent"
        ELSE q[last].state

\* App.total_sites: the progress total Assigner::new returned
TotalSites == sitesCount[1]
\* (bug: the gauge takes any ratio)
RatioAcceptedBug(crawled, total) == TRUE
\* Gauge::ratio(crawled as f64 / total as f64) accepts a ratio within [0, 1]
RatioAccepted(crawled, total) == total > 0 /\ crawled <= total

\* Tui::run returns or unwinds: the App and its report receiver are dropped
TuiEnds(how) ==
    /\ tui' = how
    /\ reportOpen' = FALSE

\* select!: the ticker fires. App::update recomputes the sorted snapshot if the
\* flag is set and takes every report waiting in the channel; then the frame is
\* drawn, and the gauge panics on a ratio outside [0, 1]
AppTick ==
    /\ tui = "running"
    /\ appFreq' = IF dirty THEN SortByCount(Snapshot(freq)) ELSE appFreq
    /\ dirty' = AfterPoll(dirty)
    /\ crawledSites' = crawledSites + SumComplete(Workers)
    /\ received' = [w \in Workers |-> Len(reports[w])]
    /\ crawlers' = [w \in Workers |-> Shown(w)]
    /\ IF RatioAccepted(crawledSites', TotalSites)
         THEN UNCHANGED <<tui, reportOpen>>
         ELSE TuiEnds("panicked")
    /\ UNCHANGED <<setupVars, appState, closeRx, shutdownVars, readerVars, queueVars, pc,
                   cur, foldVars, reports, procVars, mainVars>>

\* App::on_event, Ctrl-C: the state becomes ShuttingDown whatever it was, and a
\* shutdown signal is sent
KeyCtrlC ==
    /\ tui = "running"
    /\ version < MaxSignals
    /\ appState' = "ShuttingDown"
    /\ version' = version + 1
    /\ UNCHANGED <<setupVars, dirty, tui, closeRx, crawledSites, received, appFreq,
                   crawlers, seen, readerVars, queueVars, pc, cur, foldVars, reports,
                   reportOpen, procVars, mainVars>>

\* App::on_event, Enter while Done: on_event returns true and the loop ends (in
\* any other state, and for any other key, nothing changes)
KeyEnter ==
    /\ tui = "running"
    /\ appState = "Done"
    /\ TuiEnds("ended")
    /\ UNCHANGED <<setupVars, dirty, appState, closeRx, crawledSites, received, appFreq,
                   crawlers, shutdownVars, readerVars, queueVars, pc, cur, foldVars,
                   reports, procVars, mainVars>>

\* the event stream yields an error: the ? ends Tui::run
EventError ==
    /\ tui = "running"
    /\ TuiEnds("error")
    /\ UNCHANGED <<setupVars, dirty, appState, closeRx, crawledSites, received, appFreq,
                   crawlers, shutdownVars, readerVars, queueVars, pc, cur, foldVars,
                   reports, procVars, mainVars>>

\* the holder of the oneshot sender completes the close signal
CloseSend ==
    /\ closeRx = "pending"
    /\ closeRx' = "sent"
    /\ UNCHANGED <<setupVars, dirty, appState, tui, crawledSites, received, appFreq,
                   crawlers, shutdownVars, readerVars, queueVars, pc, cur, foldVars,
                   reports, reportOpen, procVars, mainVars>>

\* select!: &mut close_rx completes, the branch being enabled while the state is
\* not Done: Running becomes Done, ShuttingDown ends the loop
CloseReceived ==
    /\ tui = "running"
    /\ appState # "Done"
    /\ closeRx = "sent"
    /\ closeRx' = "taken"
    /\ IF appState = "Running"
         THEN /\ appState' = "Done"
              /\ UNCHANGED <<tui, reportOpen>>
         ELSE /\ TuiEnds("ended")
              /\ UNCHANGED appState
    /\ UNCHANGED <<setupVars, dirty, crawledSites, received, appFreq, crawlers,
                   shutdownVars, readerVars, queueVars, pc, cur, foldVars, reports,
                   procVars, mainVars>>

\* select!: the branch is enabled again after the receiver has completed; polling
\* a completed oneshot receiver panics
CloseAwaitedAgain ==
    /\ tui = "running"
    /\ appState # "Done"
    /\ closeRx = "taken"
    /\ TuiEnds("panicked")
    /\ UNCHANGED <<setupVars, dirty, appState, closeRx, crawledSites, received, appFreq,
                   crawlers, shutdownVars, readerVars, queueVars, pc, cur, foldVars,
                   reports, procVars, mainVars>>

\* the files of NumRecords well-formed records
ProgressFiles == {FileOf(first, [i \in 1..NumRecords |-> "short"]) : first \in FirstIndexes}

\* Assigner::new has returned the progress total, the App is made with it, the
\* tasks are spawned
TuiInit ==
    /\ FreshPool
    /\ capacity = Capacity
    /\ apc = "select"
    /\ file \in ProgressFiles
    /\ sitesCount = ReadLargestIndex(file).index

\* the reader, one worker and the observer; Ctrl-C is a key event of the observer
TuiNext ==
    \/ AppTick
    \/ KeyCtrlC
    \/ KeyEnter
    \/ EventError
    \/ CloseSend
    \/ CloseReceived
    \/ CloseAwaitedAgain
    \/ AssignerShutdown
    \/ AssignerReadLine
    \/ AssignerPush
    \/ AssignerEof
    \/ \E w \in Solo : NewStart(w)
    \/ \E w \in Solo : InitOk(w)
    \/ \E w \in Solo : ObserveShutdown(w)
    \/ \E w \in Solo : TryPopSome(w)
    \/ \E w \in Solo : TryPopNone(w)
    \/ \E w \in Solo : GotoOk(w)
    \/ \E w \in Solo : GotoFail(w)
    \/ \E w \in Solo : FindOk(w)
    \/ \E w \in Solo : AcceptNodeSkip(w)
    \/ \E w \in Solo : AcceptNodeCount(w)
    \/ \E w \in Solo : AcceptNodeErr(w)
    \/ \E w \in Solo : SendComplete(w)
    \/ \E w \in Solo : ForcedShutdown(w)
    \/ \E w \in Solo : CloseOk(w)

TuiSpec == TuiInit /\ [][TuiNext]_vars

(* ------------------------------ properties ------------------------------ *)
States(w) == [i \in 1..Len(reports[w]) |-> reports[w][i].state]
HasReported(w, st) == \E i \in 1..Len(reports[w]) : reports[w][i].state = st
Count(w, st) == Cardinality({i \in 1..Len(reports[w]) : reports[w][i].state = st})
PoppedJobs == {popLog[i][2] : i \in 1..Len(popLog)}
PushedJobs == {pushed[i] : i \in 1..Len(pushed)}
Stopped(w) == pc[w] \in {"done", "error", "panicked"}

\* C1: every job the reader pushed is returned by at most one try_pop, to one
\* worker: no two entries of the pop log hold the same job, and only pushed jobs
\* are popped.
C1_PoppedAtMostOnce ==
    /\ \A i, k \in 1..Len(popLog) : i # k => popLog[i][2] # popLog[k][2]
    /\ PoppedJobs \subseteq PushedJobs

C1_Witness ==
    /\ Len(popLog) = 2
    /\ popLog[1][1] # popLog[2][1]

C3_SharedCountIsTotal == \A t \in HTML_TAGS : freq[t] = processed[t]

\* C4: each worker's reports follow Initializing -> {Complete <-> InProgress}* ->
\* ShuttingDown -> Terminated, or Initializing, Terminated when initialization
\* failed: Initializing is first and only first, InProgress follows Initializing or
\* Complete, Complete follows InProgress, ShuttingDown follows Initializing,
\* InProgress or Complete, Terminated follows ShuttingDown (or Initializing, and
\* then the worker never ran), and nothing follows Terminated.
Follows(st) ==
    CASE st = "InProgress" -> {"Initializing", "Complete"}
      [] st = "Complete" -> {"InProgress"}
      [] st = "ShuttingDown" -> {"Initializing", "InProgress", "Complete"}
      [] st = "Terminated" -> {"Initializing", "ShuttingDown"}
      [] OTHER -> {}

C4_ReportStateMachine ==
    \A w \in Workers :
        /\ Len(reports[w]) > 0 => States(w)[1] = "Initializing"
        /\ \A i \in 2..Len(reports[w]) : States(w)[i - 1] \in Follows(States(w)[i])
        /\ States(w) = <<"Initializing", "Terminated">> => pc[w] = "panicked"

C4_Witness ==
    \E w \in Workers :
        States(w) = <<"Initializing", "InProgress", "Complete", "ShuttingDown",
                      "Terminated">>

\* C5: a worker that has stopped, whichever way, has sent exactly one Terminated
\* report, and no worker ever sends two.
C5_TerminatedExactlyOnce ==
    \A w \in Workers :
        /\ Count(w, "Terminated") <= 1
        /\ Stopped(w) => Count(w, "Terminated") = 1

\* the worker tasks main has spawned: one per port of the range, in its for loop
SpawnedTasks == Workers

\* C6: once the supervisor has taken the result of a worker whose initialization
\* failed, the pool keeps running, one replacement per such worker has been
\* spawned, and the failed worker has popped no job.
C6_InitFailureRespawns ==
    \A w \in Workers :
        (pc[w] = "panicked" /\ joined[w]) =>
            /\ main = "waiting"
            /\ Cardinality(SpawnedTasks) =
                   NumWorkers + Cardinality({v \in Workers : pc[v] = "panicked" /\ joined[v]})
            /\ \A i \in 1..Len(popLog) : popLog[i][1] # w

\* C7: once a shutdown signal has been sent, no step pushes a job into the queue.
C7_NoPushAfterSignal == [][version >= 1 => pushed' = pushed]_vars

\* C8: a worker never reports ShuttingDown right after InProgress: the job in
\* flight is completed (Complete is reported) before the shutdown is acted on.
C8_InFlightJobCompletes ==
    \A w \in Workers :
        \A i \in 2..Len(reports[w]) :
            States(w)[i] = "ShuttingDown" => States(w)[i - 1] # "InProgress"

NoDisturbance ==
    /\ version = 0
    /\ main # "failed"
    /\ \A w \in Workers : pc[w] \notin {"error", "panicked"}

C10_EventualDelivery ==
    \A j \in Jobs :
        (j \in PushedJobs /\ NoDisturbance) ~> (j \in PoppedJobs \/ ~NoDisturbance)

\* number of elements of tag on the scenario's page
PerPage(tag) == Cardinality({i \in 1..Len(PageTags) : PageTags[i] = tag})

\* C11: in the one-worker scenario (N well-formed records, every navigation
\* succeeds, no signal) the worker, once its run has returned Ok, has reported
\* exactly N Complete and then exactly one Terminated, its last report, and the
\* shared table holds for each tag N times the number of elements of that tag on
\* the page.
C11_ScenarioOutcome ==
    \A w \in Solo :
        pc[w] = "done" =>
            /\ Count(w, "Complete") = NumLines(file)
            /\ Count(w, "Terminated") = 1
            /\ States(w)[Len(reports[w])] = "Terminated"
            /\ \A t \in HTML_TAGS : freq[t] = NumLines(file) * PerPage(t)

\* the step is one in which worker w observes a shutdown signal, or in which main
\* returns and cuts the task off
Preempted(w) == seen'[w] # seen[w] \/ pc'[w] = "aborted"

\* C12: a worker whose crawl found no root element reports no completion and pops
\* no further job: unless a signal or main's return preempts it, the only step it
\* takes from there is out of run with the error.
C12_StructuralErrorStops ==
    [][\A w \in Workers :
          (pc[w] = "dom_err" /\ pc'[w] # "dom_err" /\ ~Preempted(w)) =>
              (pc'[w] = "error" /\ reports'[w] = reports[w] /\ popLog' = popLog)]_vars

Range(q) == {q[i] : i \in 1..Len(q)}

\* C13: a navigation failure leaves the worker in its loop with the job abandoned:
\* the navigation ends in the next stage of the crawl or in the logged failure,
\* never in the end of run; the failure and the step after it add nothing to the
\* queue or to any table; unless a signal or main's return preempts it, that step
\* reports Complete and returns to the pop; and no popped job is in the queue
\* again.
C13_NavFailureAbandonsJob ==
    /\ [][\A w \in Workers :
            /\ (pc[w] = "goto" /\ pc'[w] # "goto" /\ ~Preempted(w)) =>
                   pc'[w] \in {"find", "nav_err"}
            /\ (\/ pc[w] = "goto" /\ pc'[w] = "nav_err"
                \/ pc[w] = "nav_err" /\ pc'[w] = "pop") =>
                   UNCHANGED <<queue, pushed, freq, priv, processed>>
            /\ (pc[w] = "nav_err" /\ pc'[w] # "nav_err" /\ ~Preempted(w)) =>
                   /\ pc'[w] = "pop"
                   /\ reports'[w] = Append(reports[w], Report("Complete", NoJob))]_vars
    /\ [](\A i \in 1..Len(popLog) : popLog[i][2] \notin Range(queue))

C13_Witness ==
    \E w \in Workers :
        /\ pc[w] = "nav_err"
        /\ cur[w] = 2
        /\ States(w) = <<"Initializing", "InProgress", "Complete", "InProgress">>

\* C14: the queue never holds more jobs than its capacity; the queue changes only
\* by a push that completes or by a pop; a push completes only while there is room
\* and puts its job last; a pop takes the oldest job; so the jobs are popped in the
\* order in which they were pushed.
C14_BoundedFifo ==
    /\ [](Len(queue) \in 0..capacity)
    /\ [](\A i \in 1..Len(popLog) : popLog[i][2] = pushed[i])
    /\ [][/\ queue' # queue => (Len(pushed') > Len(pushed) \/ Len(popLog') > Len(popLog))
          /\ Len(pushed') > Len(pushed) =>
                 /\ Len(queue) < capacity
                 /\ queue' = Append(queue, pushed'[Len(pushed')])
          /\ Len(popLog') > Len(popLog) =>
                 /\ queue # <<>>
                 /\ popLog'[Len(popLog')][2] = Head(queue)
                 /\ queue' = Tail(queue)]_vars

C14_Witness ==
    /\ capacity = MaxCapacity
    /\ queue = [i \in 1..capacity |-> ParseRecord(i)]
    /\ apc = "push"
    /\ site = ParseRecord(capacity + 1)

\* C15: a signal is newer than what every reader has marked seen; a reader's mark
\* moves only when its own wait returns, to the newest version, and moves no other
\* reader's mark; a change a reader has not marked stays pending for it whatever
\* the others do; and a reader that reaches a wait with a change pending can
\* return from it at once, with no further signal.
C15_SignalsNotLost ==
    /\ [][/\ version' # version =>
                 (version' = version + 1 /\ \A r \in Readers : version' > seen'[r])
          /\ \A r \in Readers :
                 /\ seen'[r] # seen[r] =>
                        /\ version > seen[r]
                        /\ seen'[r] = version
                        /\ \A q \in Readers \ {r} : seen'[q] = seen[q]
                 /\ (version > seen[r] /\ seen'[r] = seen[r]) => version' > seen'[r]]_vars
    /\ []((main = "waiting" /\ apc = "select" /\ version > seen[AssignerId]) =>
              ENABLED AssignerShutdown)
    /\ [](\A w \in Workers :
              (main = "waiting" /\ version > seen[w]) =>
                  /\ pc[w] \in CrawlPcs => ENABLED ObserveShutdown(w)
                  /\ pc[w] = "closing" => ENABLED ForcedShutdown(w))

C15_Witness ==
    \E w, v \in Workers :
        /\ version = 1
        /\ seen[w] = 1
        /\ pc[w] = "closing"
        /\ seen[v] = 0
        /\ pc[v] = "init"
        /\ seen[AssignerId] = 0
        /\ apc = "push"

\* C16: once a shutdown signal has been sent, a reader still in its run loop
\* returns from it with Ok, at the latest when main returns.
C16_ReaderReturnsAfterSignal ==
    (version >= 1 /\ apc \in {"select", "push"}) ~> (apc = "done" \/ main # "waiting")

\* C17: main leaves its wait loop only when it has taken the result of every
\* spawned task, so no task that is still running is cut off by it.
C17_LoopEndsWhenNoTaskRemains ==
    main # "waiting" =>
        /\ \A w \in Workers : joined[w]
        /\ \A w \in Workers : pc[w] # "aborted"

\* how the generated files are made: the index of the first record and the kinds
\* of the records
FileParams ==
    UNION {{<<first, kinds>> : kinds \in [1..n -> RecordKinds]} :
              <<first, n>> \in FirstIndexes \X (1..NumRecords)}
WellFormedKinds == {"short", "long", "schemed"}

\* C18: for a file whose final record is well-formed with index K, whether longer
\* or shorter than the window and whether of one record or more, Assigner::new
\* returns K as the progress total.
C18_IndexOfFinalRecord ==
    \A p \in FileParams :
        (file = FileOf(p[1], p[2]) /\ p[2][Len(p[2])] \in WellFormedKinds /\ apc # "new") =>
            sitesCount = <<p[1] + Len(p[2]) - 1>>

\* the record the reader is about to read exists and is malformed
AtMalformed ==
    /\ next <= NumLines(file)
    /\ \/ ~HasDelimiter(LineOf(file, next))
       \/ ~UrlParses(UrlText(LineOf(file, next)))

\* C19: the run ends with an error exactly at a malformed record: the step that
\* meets one returns the error and leaves the queue and the jobs pushed before it
\* as they are; a malformed record is never turned into a job; and once the run
\* has failed every record before the malformed one has been pushed, none after
\* it is, and the queue changes only by pops.
C19_MalformedRecordFailsRun ==
    /\ [][/\ (apc = "select" /\ AtMalformed /\ apc' # apc) =>
                 /\ apc' = "error"
                 /\ UNCHANGED <<queue, pushed, site>>
          /\ (apc = "select" /\ apc' = "error") => AtMalformed
          /\ apc = "error" =>
                 /\ apc' = "error"
                 /\ pushed' = pushed
                 /\ queue' = queue \/ queue' = Tail(queue)]_vars
    /\ [](apc = "error" => pushed = [i \in 1..(next - 2) |-> ParseRecord(i)])

\* C20: Assigner::new leaves the reader at the first record: the run starts
\* there, the i-th job pushed is made from the i-th record, the reader is always
\* at the record after the last one it took, and a run that reaches the end of a
\* file has pushed one job per record.
C20_ReadStartsAtFirstRecord ==
    /\ [][(apc = "new" /\ apc' = "select") => next' = 1]_vars
    /\ [](\A i \in 1..Len(pushed) : pushed[i] = ParseRecord(i))
    /\ [](apc = "select" => next = Len(pushed) + 1)
    /\ [](apc = "push" => (site = ParseRecord(Len(pushed) + 1) /\ next = Len(pushed) + 2))
    /\ [](apc = "done" => Len(pushed) = NumLines(file))

C20_Witness ==
    /\ Len(file) > Window
    /\ sitesCount # <<>>
    /\ apc = "done"
    /\ pushed = [i \in 1..NumLines(file) |-> ParseRecord(i)]
    /\ Len(pushed) >= 2

\* the text after the first delimiter of a record, and whether a text starts with
\* the scheme
PayloadOf(line) == SubSeq(line, Find(line, ",") + 1, Len(line))
HasScheme(text) == Len(text) >= Len(Scheme) /\ SubSeq(text, 1, Len(Scheme)) = Scheme

\* C21: the scheme is prefixed only if absent: the job made of a record whose
\* payload already starts with the scheme is the URL of that payload as it is,
\* the same job as for the payload without the scheme.
C21_SchemeOnlyIfAbsent ==
    \A i \in 1..Len(pushed) :
        HasScheme(PayloadOf(LineOf(file, pushed[i]))) =>
            JobOf(file, pushed[i]) = UrlParse(PayloadOf(LineOf(file, pushed[i])))

\* the table the state given to accept_node refers to, before and after a step
TableBefore(w) == IF acc[w] = "shared" THEN freq ELSE priv[w]
TableAfter(w) == IF acc[w] = "shared" THEN freq' ELSE priv'[w]
\* accept_node returned Ok on this step: the fold goes on to the next element, or
\* ends and gives the state back to the worker
ReturnedOk(w) ==
    /\ todo'[w] = todo[w] - 1
    /\ pc'[w] = "fold" \/ (pc'[w] = "complete" /\ selfState'[w] = acc[w])

\* C22: a call of accept_node either leaves every counter of its table as it was,
\* or raises the counter of exactly one recognized tag by exactly one and returns
\* Ok (when it returns an error the fold ends, and the private table the fold
\* counted in, if it had one, is dropped with it); no other table changes. When the tag name cannot be read or the tag
\* is not recognized, no counter changes and the call returns Ok.
C22_AcceptNodeFrame ==
    [][\A w \in Workers :
          /\ (pc[w] = "fold" /\ todo'[w] # todo[w] /\ ~Preempted(w)) =>
                 /\ \/ TableAfter(w) = TableBefore(w)
                    \/ /\ ReturnedOk(w)
                       /\ \E t \in HTML_TAGS :
                              TableAfter(w) = [TableBefore(w) EXCEPT ![t] = @ + 1]
                    \/ /\ AcceptNodeErr(w)
                       /\ acc[w] # "shared"
                       /\ TableAfter(w) = ZeroTable
                 /\ acc[w] = "shared" => priv' = priv
                 /\ acc[w] # "shared" =>
                        (freq' = freq /\ \A v \in Workers \ {w} : priv'[v] = priv[v])
          /\ AcceptNodeSkip(w) =>
                 (ReturnedOk(w) /\ freq' = freq /\ priv' = priv)]_vars

\* on its second page the worker has counted a span in the shared table; the
\* first page changed no counter
C22_Witness ==
    \E w \in Solo :
        /\ pc[w] = "complete"
        /\ Count(w, "Complete") = 1
        /\ freq = [ZeroTable EXCEPT !["span"] = 1]
        /\ priv[w] = ZeroTable
        /\ processed = freq

\* C23: no step of a worker, of the reader or of the observer lowers a counter of
\* the shared table.
C23_CountersNeverDecrease == [][\A t \in HTML_TAGS : freq'[t] >= freq[t]]_vars

\* the observer has taken a snapshot after the first increment, and the worker has
\* raised the same counter again since
C23_Witness ==
    /\ tui = "running"
    /\ appFreq = <<<<"span", 1>>, <<"div", 0>>>>
    /\ freq = [ZeroTable EXCEPT !["span"] = 2]

\* C24: every increment of the shared table sets the dirty flag, no step resets
\* it, and every update of the observer that finds it set recomputes the sorted
\* snapshot from the table.
C24_DirtyNeverReset ==
    /\ [][freq' # freq => dirty']_vars
    /\ [][dirty => dirty']_vars
    /\ [][(AppTick /\ dirty) => appFreq' = SortByCount(Snapshot(freq))]_vars

\* the observer has recomputed its snapshot after the only increment so far, and
\* the flag is still set
C24_Witness ==
    /\ tui = "running"
    /\ dirty
    /\ freq = [ZeroTable EXCEPT !["span"] = 1]
    /\ appFreq = <<<<"span", 1>>, <<"div", 0>>>>
    /\ \E w \in Solo : received[w] = Len(reports[w]) /\ pc[w] = "done"

\* C25: a worker task that has ended, however it ended, has left no subprocess
\* running and no session open.
C25_CleanupOnEveryExit ==
    \A w \in Workers :
        (Finished(w) \/ pc[w] = "aborted") =>
            (driver[w] # "running" /\ session[w] # "open")

\* C26: from initialization on, the State of a worker in its crawl loop refers to
\* the shared table, and so does the accumulator of its fold.
C26_StateStaysShared ==
    \A w \in Workers :
        /\ pc[w] \in CrawlPcs \ {"fold"} => selfState[w] = "shared"
        /\ pc[w] = "fold" => acc[w] = "shared"

\* C27: the observer's count of crawled sites never exceeds its progress total.
C27_CrawledWithinTotal == crawledSites <= TotalSites

\* C28: once Done, the observer's state stays Done, and a close signal that has
\* completed is never awaited again.
C28_DoneIsAbsorbing ==
    /\ [][appState = "Done" => appState' = "Done"]_vars
    /\ [](~(tui = "running" /\ closeRx = "taken" /\ appState # "Done"))

====
